---------------------------- MODULE Spec2Model ----------------------------
(***************************************************************************)
(* Kubelog backend: the permission registry (loadClusters and the rule     *)
(* compiler), the namespace gate, the pod permission evaluator and the     *)
(* request path of the router (/access) that asks Kwirth for access keys.  *)
(*                                                                         *)
(* Strings that the code lower-cases or tests against regular expressions  *)
(* (identity refs, pod names, entity names, patterns) are sequences of     *)
(* one-character strings, so that toLowerCase and RegExp.test are computed *)
(* and not assumed.  Strings that are only compared with === (cluster      *)
(* names, namespaces, config keys, scope names) are TLA+ strings.          *)
(***************************************************************************)
EXTENDS Naturals, Sequences, FiniteSets, TLC

(***************************************************************************)
(* Strings of the model                                                    *)
(***************************************************************************)
\* patterns of the README example (docs/README.md, pod permissions)
re_any == <<".","*">>
re_common == <<"^","c","o","m","m","o","n","-">>
re_keys == <<"k","e","y","s">>
re_ef == <<"^","e","f",".","*">>
re_th == <<"t","h","$">>
re_kwirth == <<"k","w","i","r","t","h">>
re_anyadmin == <<"g","r","o","u","p",":",".","+","/","a","d","m","i","n">>
re_testany == <<"g","r","o","u","p",":","t","e","s","t","/",".","+">>
re_defualt == <<"u","s","e","r",":","d","e","f","u","a","l","t",":","n","i","c","k","l","a","u","s","-","w","i","r","t","h">>
\* identity refs
ref_admin == <<"g","r","o","u","p",":","d","e","f","a","u","l","t","/","a","d","m","i","n">>
ref_devops == <<"g","r","o","u","p",":","d","e","f","a","u","l","t","/","d","e","v","o","p","s">>
ref_nicklaus == <<"u","s","e","r",":","d","e","f","a","u","l","t","/","n","i","c","k","l","a","u","s","-","w","i","r","t","h">>
ref_Admin == <<"g","r","o","u","p",":","d","e","f","a","u","l","t","/","A","d","m","i","n">>
ref_Nicklaus == <<"u","s","e","r",":","d","e","f","a","u","l","t","/","N","i","c","k","l","a","u","s","-","W","i","r","t","h">>
ref_ada == <<"u","s","e","r",":","d","e","f","a","u","l","t","/","a","d","a">>
\* pod names and entity names
pod_health == <<"h","e","a","l","t","h">>
pod_kwirth == <<"k","w","i","r","t","h">>
pod_common == <<"c","o","m","m","o","n","-","x">>
ent_shop == <<"s","h","o","p">>

(***************************************************************************)
(* String.prototype.toLowerCase, character by character                    *)
(***************************************************************************)
UpperCaseLetters == <<"A","B","C","D","E","F","G","H","I","J","K","L","M",
                      "N","O","P","Q","R","S","T","U","V","W","X","Y","Z">>
LowerCaseLetters == <<"a","b","c","d","e","f","g","h","i","j","k","l","m",
                      "n","o","p","q","r","s","t","u","v","w","x","y","z">>

LowerChar(c) ==
    IF \E i \in 1..Len(UpperCaseLetters) : UpperCaseLetters[i] = c
    THEN LowerCaseLetters[CHOOSE i \in 1..Len(UpperCaseLetters) : UpperCaseLetters[i] = c]
    ELSE c

toLowerCase(s) == [i \in 1..Len(s) |-> LowerChar(s[i])]

(***************************************************************************)
(* RegExp.prototype.test for the pattern syntax the configuration uses:    *)
(* literal characters, '.', the postfix operators '*' and '+' on one       *)
(* character, '^' at the start and '$' at the end.  An unanchored pattern  *)
(* is searched at every position of the string.                            *)
(***************************************************************************)
CharMatches(c, x) == c = "." \/ c = x

RECURSIVE MatchHere(_, _)
RECURSIVE MatchStar(_, _, _)

MatchStar(c, re, s) ==
    \/ MatchHere(re, s)
    \/ s # <<>> /\ CharMatches(c, s[1]) /\ MatchStar(c, re, Tail(s))

MatchHere(re, s) ==
    IF re = <<>> THEN TRUE
    ELSE IF Len(re) >= 2 /\ re[2] = "*" THEN MatchStar(re[1], Tail(Tail(re)), s)
    ELSE IF Len(re) >= 2 /\ re[2] = "+"
         THEN s # <<>> /\ CharMatches(re[1], s[1]) /\ MatchStar(re[1], Tail(Tail(re)), Tail(s))
    ELSE IF re = <<"$">> THEN s = <<>>
    ELSE s # <<>> /\ CharMatches(re[1], s[1]) /\ MatchHere(Tail(re), Tail(s))

RegExpTest(re, s) ==
    IF re # <<>> /\ re[1] = "^"
    THEN MatchHere(Tail(re), s)
    ELSE \E i \in 1..(Len(s) + 1) : MatchHere(re, SubSeq(s, i, Len(s)))

(***************************************************************************)
(* The app-config the loader reads.  A config object is a function from    *)
(* its keys to their values; Config.has(key) is membership in its domain.  *)
(* A list entry with one key ("- stage: [...]") is a function with a       *)
(* one-element domain.                                                     *)
(***************************************************************************)
has(config, key) == key \in DOMAIN config

\* ns.keys()[0] of a single-key mapping
FirstKey(config) == CHOOSE k \in DOMAIN config : TRUE

\* cluster k1: the example of the README (namespace and view permissions)
ReadmeStage ==
    "stage" :> [ allow  |-> << [pods |-> <<re_common>>],
                               [pods |-> <<re_keys>>, refs |-> <<>>],
                               [pods |-> <<re_ef>>, refs |-> <<re_anyadmin, re_testany>>],
                               [pods |-> <<re_th>>, refs |-> <<re_any>>] >>,
                 except |-> << [pods |-> <<re_kwirth>>, refs |-> <<ref_admin, re_defualt>>] >> ]

ReadmeProduction == "production" :> [ deny |-> << [refs |-> <<re_any>>] >> ]

ReadmeOthers == "others" :> [ allow |-> << [refs |-> <<>>] >> ]

ReadmeCluster ==
    [ name |-> "k1", title |-> "Kubernetes local",
      kubelogKwirthHome |-> "http://k1/kwirth", kubelogKwirthApiKey |-> "key1",
      kubelogNamespacePermissions |->
          << "stage" :> <<ref_devops, ref_admin>>,
             "production" :> <<ref_admin, ref_nicklaus>> >>,
      kubelogPodViewPermissions |-> << ReadmeStage, ReadmeProduction, ReadmeOthers >> ]

\* cluster k2: one allow rule refined by one except rule for view, and an
\* allow-all refined by deny/unless for restart; no namespace permissions
ScenarioStage ==
    "stage" :> [ allow  |-> << [pods |-> <<re_th>>, refs |-> <<re_any>>] >>,
                 except |-> << [pods |-> <<re_kwirth>>, refs |-> <<ref_admin>>] >> ]

ScenarioRestart ==
    "stage" :> [ allow  |-> << [pods |-> <<re_any>>] >>,
                 deny   |-> << [pods |-> <<re_kwirth>>] >>,
                 unless |-> << [refs |-> <<ref_admin>>] >> ]

ScenarioCluster ==
    [ name |-> "k2",
      kubelogKwirthHome |-> "http://k2/kwirth", kubelogKwirthApiKey |-> "key2",
      kubelogPodViewPermissions |-> << ScenarioStage >>,
      kubelogPodRestartPermissions |-> << ScenarioRestart >> ]

\* cluster k1 without its API key, and cluster k2 declared with the deprecated
\* key names: a namespace nobody may enter, an identity ref written with capital
\* letters, and a namespace that is repeated in the view permissions
NoKeyCluster == [ name |-> "k1", kubelogKwirthHome |-> "http://k1/kwirth" ]

DeprecatedCluster ==
    [ name |-> "k2", kwirthHome |-> "http://k2/kwirth", kwirthApiKey |-> "key2",
      kwirthNamespacePermissions |->
          << "others" :> <<>>, "stage" :> <<ref_Admin, ref_ada>> >>,
      kubelogPodViewPermissions |->
          << "stage" :> [ allow |-> << [pods |-> <<re_kwirth>>, refs |-> <<ref_admin>>] >> ],
             "stage" :> [ allow |-> << [pods |-> <<re_common>>] >>,
                          deny  |-> << [refs |-> <<ref_ada>>] >> ] >> ]

\* kubernetes.clusterLocatorMethods: a list of methods, each with its clusters
ReadmeConfig == << [clusters |-> << ReadmeCluster, ScenarioCluster >>] >>

DeprecatedConfig == << [clusters |-> << NoKeyCluster >>], [clusters |-> << DeprecatedCluster >>] >>

Configs == { ReadmeConfig, DeprecatedConfig }

(***************************************************************************)
(* The rule compiler                                                       *)
(***************************************************************************)
\* cluster.getOptionalConfigArray(a) || cluster.getOptionalConfigArray(b)
OptionalEither(cluster, a, b) == IF has(cluster, a) THEN cluster[a] ELSE cluster[b]

\* the value of kdata.namespacePermissions after loadNamespacePermissions,
\* kdata.namespacePermissions being [] before
loadNamespacePermissions(cluster) ==
    IF has(cluster, "kwirthNamespacePermissions") \/ has(cluster, "kubelogNamespacePermissions")
    THEN LET permNamespaces ==
                 OptionalEither(cluster, "kwirthNamespacePermissions", "kubelogNamespacePermissions")
         IN  [ i \in 1..Len(permNamespaces) |->
                 LET ns == permNamespaces[i]
                     namespace == FirstKey(ns)
                     identityRefs == ns[namespace]
                 IN  [ namespace |-> namespace,
                       identityRefs |-> [ j \in 1..Len(identityRefs) |-> toLowerCase(identityRefs[j]) ] ] ]
    ELSE <<>>

\* a compiler that takes an empty list for an omitted one
CompileRuleEmptyOmitted(rule) ==
    [ pods |-> IF has(rule, "pods") /\ rule.pods # <<>> THEN rule.pods ELSE <<re_any>>,
      refs |-> IF has(rule, "refs") /\ rule.refs # <<>> THEN rule.refs ELSE <<re_any>> ]

\* one compiled rule: rule.getOptionalStringArray(k) || ['.*'], each string
\* compiled with new RegExp
CompileRule(rule) ==
    [ pods |-> IF has(rule, "pods") THEN rule.pods ELSE <<re_any>>,
      refs |-> IF has(rule, "refs") THEN rule.refs ELSE <<re_any>> ]

loadPodRules(config, id) == [ i \in 1..Len(config[id]) |-> CompileRule(config[id][i]) ]

\* a compiler that compiles the except, deny and unless sections of an entry
\* without allow
CompileBlockKeepsSections(ns) ==
    LET namespaceName == FirstKey(ns)
        body == ns[namespaceName]
        sections == {"allow"} \cup ({"except", "deny", "unless"} \cap DOMAIN body)
    IN  [ k \in {"namespace"} \cup sections |->
            IF k = "namespace" THEN namespaceName
            ELSE IF has(body, k) THEN loadPodRules(body, k)
            ELSE << [pods |-> <<re_any>>, refs |-> <<re_any>>] >> ]

\* the KubelogPodPermissions object built for one namespace entry
CompileBlock(ns) ==
    LET namespaceName == FirstKey(ns)
        body == ns[namespaceName]
        sections == IF has(body, "allow")
                    THEN {"allow"} \cup ({"except", "deny", "unless"} \cap DOMAIN body)
                    ELSE {"allow"}
    IN  [ k \in {"namespace"} \cup sections |->
            IF k = "namespace" THEN namespaceName
            ELSE IF has(body, "allow") THEN loadPodRules(body, k)
            ELSE << [pods |-> <<re_any>>, refs |-> <<re_any>>] >> ]

loadPodPermissions(configKey, cluster) ==
    IF has(cluster, configKey)
    THEN [ i \in 1..Len(cluster[configKey]) |-> CompileBlock(cluster[configKey][i]) ]
    ELSE <<>>

(***************************************************************************)
(* KubelogStaticData.clusterKubelogData: a Map from cluster name to         *)
(* KubelogClusterData.  A Map keeps its keys in insertion order, so it is   *)
(* a sequence of entries with distinct names.  The evaluators below take    *)
(* the Map as their first parameter `data` where the code reads the static. *)
(***************************************************************************)
MapHas(data, name) == \E i \in 1..Len(data) : data[i].name = name

MapGet(data, name) == data[CHOOSE i \in 1..Len(data) : data[i].name = name]

MapSet(data, name, value) ==
    IF MapHas(data, name)
    THEN [ i \in 1..Len(data) |-> IF data[i].name = name THEN value ELSE data[i] ]
    ELSE Append(data, value)

(***************************************************************************)
(* enum KWIRTH_SCOPE and the lookup KWIRTH_SCOPE[key].  A numeric enum is   *)
(* an object that maps each name to its number and each number (as a key)   *)
(* back to its name; any other key is undefined.                            *)
(***************************************************************************)
ScopeNames == <<"filter", "view", "restart", "api", "cluster">>

ScopeDigits == <<"1", "2", "3", "4", "5">>

KWIRTH_SCOPE(key) ==
    IF \E i \in 1..Len(ScopeNames) : ScopeNames[i] = key
    THEN [ t |-> "number", n |-> CHOOSE i \in 1..Len(ScopeNames) : ScopeNames[i] = key ]
    ELSE IF \E i \in 1..Len(ScopeDigits) : ScopeDigits[i] = key
    THEN [ t |-> "string", s |-> ScopeNames[CHOOSE i \in 1..Len(ScopeDigits) : ScopeDigits[i] = key] ]
    ELSE [ t |-> "undefined" ]

ScopeView == [ t |-> "number", n |-> 2 ]

ScopeRestart == [ t |-> "number", n |-> 3 ]

(***************************************************************************)
(* The namespace gate                                                      *)
(***************************************************************************)
\* a gate that is closed for a namespace without a rule
checkNamespaceAccessClosed(data, cluster, podData, userEntityRef, userGroups) ==
    LET found == MapHas(data, cluster.name)
        namespacePermissions == IF found THEN MapGet(data, cluster.name).namespacePermissions ELSE <<>>
        hasRule == \E i \in 1..Len(namespacePermissions) :
                       namespacePermissions[i].namespace = podData.namespace
        rule == namespacePermissions[CHOOSE i \in 1..Len(namespacePermissions) :
                       /\ namespacePermissions[i].namespace = podData.namespace
                       /\ \A j \in 1..(i - 1) : namespacePermissions[j].namespace # podData.namespace]
    IN  IF hasRule
        THEN IF \E i \in 1..Len(rule.identityRefs) : rule.identityRefs[i] = toLowerCase(userEntityRef)
             THEN TRUE
             ELSE \E i \in 1..Len(rule.identityRefs) :
                      \E k \in 1..Len(userGroups) : userGroups[k] = rule.identityRefs[i]
        ELSE FALSE

\* a gate that looks at the user ref only
checkNamespaceAccessUserOnly(data, cluster, podData, userEntityRef, userGroups) ==
    LET found == MapHas(data, cluster.name)
        namespacePermissions == IF found THEN MapGet(data, cluster.name).namespacePermissions ELSE <<>>
        hasRule == \E i \in 1..Len(namespacePermissions) :
                       namespacePermissions[i].namespace = podData.namespace
        rule == namespacePermissions[CHOOSE i \in 1..Len(namespacePermissions) :
                       /\ namespacePermissions[i].namespace = podData.namespace
                       /\ \A j \in 1..(i - 1) : namespacePermissions[j].namespace # podData.namespace]
    IN  IF hasRule
        THEN IF \E i \in 1..Len(rule.identityRefs) : rule.identityRefs[i] = toLowerCase(userEntityRef)
             THEN TRUE
             ELSE FALSE
        ELSE TRUE

checkNamespaceAccess(data, cluster, podData, userEntityRef, userGroups) ==
    LET found == MapHas(data, cluster.name)
        namespacePermissions == IF found THEN MapGet(data, cluster.name).namespacePermissions ELSE <<>>
        hasRule == \E i \in 1..Len(namespacePermissions) :
                       namespacePermissions[i].namespace = podData.namespace
        rule == namespacePermissions[CHOOSE i \in 1..Len(namespacePermissions) :
                       /\ namespacePermissions[i].namespace = podData.namespace
                       /\ \A j \in 1..(i - 1) : namespacePermissions[j].namespace # podData.namespace]
    IN  IF hasRule
        THEN IF \E i \in 1..Len(rule.identityRefs) : rule.identityRefs[i] = toLowerCase(userEntityRef)
             THEN TRUE
             ELSE \E i \in 1..Len(rule.identityRefs) :
                      \E k \in 1..Len(userGroups) : userGroups[k] = rule.identityRefs[i]
        ELSE TRUE

(***************************************************************************)
(* The pod permission evaluator                                            *)
(***************************************************************************)
\* the loop over ppr.refs, from index j, refMatch being the variable's value
RECURSIVE RefLoop(_, _, _, _, _)
RefLoop(refs, j, userEntityRef, userGroups, refMatch) ==
    IF j > Len(refs) THEN refMatch
    ELSE IF RegExpTest(refs[j], toLowerCase(userEntityRef)) THEN TRUE
    ELSE LET groupMatch == \E k \in 1..Len(userGroups) : RegExpTest(refs[j], userGroups[k])
         IN  IF groupMatch THEN TRUE
             ELSE RefLoop(refs, j + 1, userEntityRef, userGroups, groupMatch)

\* a loop over ppr.pods that looks at one pattern only
PodLoopFirstOnly(ppr, i, entityName, userEntityRef, userGroups, refMatch) ==
    IF i > Len(ppr.pods) THEN refMatch
    ELSE IF RegExpTest(ppr.pods[i], entityName)
         THEN RefLoop(ppr.refs, 1, userEntityRef, userGroups, refMatch)
         ELSE refMatch

\* the loop over ppr.pods, from index i
RECURSIVE PodLoop(_, _, _, _, _, _)
PodLoop(ppr, i, entityName, userEntityRef, userGroups, refMatch) ==
    IF i > Len(ppr.pods) THEN refMatch
    ELSE LET after == IF RegExpTest(ppr.pods[i], entityName)
                      THEN RefLoop(ppr.refs, 1, userEntityRef, userGroups, refMatch)
                      ELSE refMatch
         IN  IF after THEN TRUE
             ELSE PodLoop(ppr, i + 1, entityName, userEntityRef, userGroups, after)

checkPodPermissionRule(ppr, entityName, userEntityRef, userGroups) ==
    PodLoop(ppr, 1, entityName, userEntityRef, userGroups, FALSE)

\* a loop over podPermission.allow that stops at the first rule that matches
RECURSIVE AllowLoopFirstMatch(_, _, _, _, _, _)
AllowLoopFirstMatch(rules, i, entityName, userEntityRef, userGroups, allowMatches) ==
    IF i > Len(rules) THEN allowMatches
    ELSE LET m == checkPodPermissionRule(rules[i], entityName, userEntityRef, userGroups)
         IN  IF m THEN TRUE
             ELSE AllowLoopFirstMatch(rules, i + 1, entityName, userEntityRef, userGroups, m)

\* for (var prr of podPermission.allow) allowMatches = checkPodPermissionRule(...)
RECURSIVE AllowLoop(_, _, _, _, _, _)
AllowLoop(rules, i, entityName, userEntityRef, userGroups, allowMatches) ==
    IF i > Len(rules) THEN allowMatches
    ELSE AllowLoop(rules, i + 1, entityName, userEntityRef, userGroups,
                   checkPodPermissionRule(rules[i], entityName, userEntityRef, userGroups))

\* a loop without break: the last rule of the list decides
RECURSIVE BreakLoopLast(_, _, _, _, _, _)
BreakLoopLast(rules, i, entityName, userEntityRef, userGroups, matches) ==
    IF i > Len(rules) THEN matches
    ELSE BreakLoopLast(rules, i + 1, entityName, userEntityRef, userGroups,
                       checkPodPermissionRule(rules[i], entityName, userEntityRef, userGroups))

\* the except, deny and unless loops: m = checkPodPermissionRule(...); if (m) break
RECURSIVE BreakLoop(_, _, _, _, _, _)
BreakLoop(rules, i, entityName, userEntityRef, userGroups, matches) ==
    IF i > Len(rules) THEN matches
    ELSE LET m == checkPodPermissionRule(rules[i], entityName, userEntityRef, userGroups)
         IN  IF m THEN TRUE
             ELSE BreakLoop(rules, i + 1, entityName, userEntityRef, userGroups, m)

\* a pod permission without allow that grants only when it has no deny either
BlockGrantsUndenied(podPermission, entityName, userEntityRef, userGroups) ==
    IF has(podPermission, "allow")
    THEN LET allowMatches == AllowLoop(podPermission.allow, 1, entityName, userEntityRef, userGroups, FALSE)
             exceptMatches == IF allowMatches /\ has(podPermission, "except")
                              THEN BreakLoop(podPermission.except, 1, entityName, userEntityRef, userGroups, FALSE)
                              ELSE FALSE
         IN  IF allowMatches /\ ~exceptMatches
             THEN IF has(podPermission, "deny")
                  THEN LET denyMatches == BreakLoop(podPermission.deny, 1, entityName, userEntityRef, userGroups, FALSE)
                           unlessMatches == IF denyMatches /\ has(podPermission, "unless")
                                            THEN BreakLoop(podPermission.unless, 1, entityName, userEntityRef, userGroups, FALSE)
                                            ELSE FALSE
                       IN  ~denyMatches \/ (denyMatches /\ unlessMatches)
                  ELSE TRUE
             ELSE FALSE
    ELSE ~has(podPermission, "deny")

\* a pod permission whose except list is not looked at
BlockGrantsExceptIgnored(podPermission, entityName, userEntityRef, userGroups) ==
    IF has(podPermission, "allow")
    THEN LET allowMatches == AllowLoop(podPermission.allow, 1, entityName, userEntityRef, userGroups, FALSE)
         IN  IF allowMatches
             THEN IF has(podPermission, "deny")
                  THEN LET denyMatches == BreakLoop(podPermission.deny, 1, entityName, userEntityRef, userGroups, FALSE)
                           unlessMatches == IF denyMatches /\ has(podPermission, "unless")
                                            THEN BreakLoop(podPermission.unless, 1, entityName, userEntityRef, userGroups, FALSE)
                                            ELSE FALSE
                       IN  ~denyMatches \/ (denyMatches /\ unlessMatches)
                  ELSE TRUE
             ELSE FALSE
    ELSE TRUE

\* what one pod permission does in the loop of checkPodAccess:
\* TRUE when the function returns true there, FALSE when the loop continues
BlockGrants(podPermission, entityName, userEntityRef, userGroups) ==
    IF has(podPermission, "allow")
    THEN LET allowMatches == AllowLoop(podPermission.allow, 1, entityName, userEntityRef, userGroups, FALSE)
             exceptMatches == IF allowMatches /\ has(podPermission, "except")
                              THEN BreakLoop(podPermission.except, 1, entityName, userEntityRef, userGroups, FALSE)
                              ELSE FALSE
         IN  IF allowMatches /\ ~exceptMatches
             THEN IF has(podPermission, "deny")
                  THEN LET denyMatches == BreakLoop(podPermission.deny, 1, entityName, userEntityRef, userGroups, FALSE)
                           unlessMatches == IF denyMatches /\ has(podPermission, "unless")
                                            THEN BreakLoop(podPermission.unless, 1, entityName, userEntityRef, userGroups, FALSE)
                                            ELSE FALSE
                       IN  ~denyMatches \/ (denyMatches /\ unlessMatches)
                  ELSE TRUE
             ELSE FALSE
    ELSE TRUE

RECURSIVE BlockLoop(_, _, _, _, _)
BlockLoop(blocks, i, entityName, userEntityRef, userGroups) ==
    IF i > Len(blocks) THEN FALSE
    ELSE IF BlockGrants(blocks[i], entityName, userEntityRef, userGroups) THEN TRUE
    ELSE BlockLoop(blocks, i + 1, entityName, userEntityRef, userGroups)

\* a filter that keeps the pod permissions of every namespace
FilterNamespaceAll(podPermissionSet, namespace) == podPermissionSet

\* podPermissionSet.filter(pp => pp.namespace===reqPod.namespace)
FilterNamespace(podPermissionSet, namespace) ==
    LET keep(pp) == pp.namespace = namespace
    IN  SelectSeq(podPermissionSet, keep)

\* a checkPodAccess that does not look the cluster up
checkPodAccessAnyCluster(data, reqCluster, reqPod, podPermissionSet, entityName, userEntityRef, userGroups) ==
    BlockLoop(FilterNamespace(podPermissionSet, reqPod.namespace), 1,
              entityName, userEntityRef, userGroups)

checkPodAccess(data, reqCluster, reqPod, podPermissionSet, entityName, userEntityRef, userGroups) ==
    IF ~MapHas(data, reqCluster.name) THEN FALSE
    ELSE BlockLoop(FilterNamespace(podPermissionSet, reqPod.namespace), 1,
                   entityName, userEntityRef, userGroups)

\* a getPodPermissionSet that answers every scope with the view permissions
getPodPermissionSetDefault(reqScope, clusterDefined, cluster) ==
    IF ~clusterDefined THEN [ threw |-> TRUE ]
    ELSE [ threw |-> FALSE, defined |-> TRUE, set |-> cluster.viewPermissions ]

\* a getPodPermissionSet that answers each scope with the set of the other
getPodPermissionSetSwapped(reqScope, clusterDefined, cluster) ==
    IF reqScope.t = "number" /\ reqScope.n \in {ScopeView.n, ScopeRestart.n}
    THEN IF ~clusterDefined THEN [ threw |-> TRUE ]
         ELSE [ threw |-> FALSE, defined |-> TRUE,
                set |-> IF reqScope.n = ScopeView.n THEN cluster.restartPermissions
                        ELSE cluster.viewPermissions ]
    ELSE [ threw |-> FALSE, defined |-> FALSE ]

\* getPodPermissionSet: the permission set of the scope, undefined for a scope
\* that is neither view nor restart, a TypeError when the cluster is undefined
\* and the scope is view or restart (cluster.viewPermissions of undefined)
getPodPermissionSet(reqScope, clusterDefined, cluster) ==
    IF reqScope.t = "number" /\ reqScope.n \in {ScopeView.n, ScopeRestart.n}
    THEN IF ~clusterDefined THEN [ threw |-> TRUE ]
         ELSE [ threw |-> FALSE, defined |-> TRUE,
                set |-> IF reqScope.n = ScopeView.n THEN cluster.viewPermissions
                        ELSE cluster.restartPermissions ]
    ELSE [ threw |-> FALSE, defined |-> FALSE ]

(***************************************************************************)
(* loadClusters: the clusters of all locator methods, in order             *)
(***************************************************************************)
RECURSIVE AllClusters(_)
AllClusters(locatingMethods) ==
    IF locatingMethods = <<>> THEN <<>>
    ELSE Head(locatingMethods).clusters \o AllClusters(Tail(locatingMethods))

\* the condition under which loadClusters registers a cluster
HasKwirth(cluster) ==
    /\ has(cluster, "kwirthHome") \/ has(cluster, "kubelogKwirthHome")
    /\ has(cluster, "kwirthApiKey") \/ has(cluster, "kubelogKwirthApiKey")

\* a loop that ends at a cluster it does not register
NextKwirthStops(clusters, i) ==
    IF i > Len(clusters) THEN 0
    ELSE IF HasKwirth(clusters[i]) THEN i
    ELSE 0

\* the index of the first cluster from index i on that loadClusters registers
\* (the loop runs through the others without suspending), 0 when there is none
RECURSIVE NextKwirth(_, _)
NextKwirth(clusters, i) ==
    IF i > Len(clusters) THEN 0
    ELSE IF HasKwirth(clusters[i]) THEN i
    ELSE NextKwirth(clusters, i + 1)

\* the KubelogClusterData that loadClusters stores for a cluster
ClusterData(cluster) ==
    [ name |-> cluster.name,
      kwirthHome |-> OptionalEither(cluster, "kwirthHome", "kubelogKwirthHome"),
      kwirthApiKeyStr |-> OptionalEither(cluster, "kwirthApiKey", "kubelogKwirthApiKey"),
      title |-> IF has(cluster, "title") THEN cluster.title ELSE "No name",
      namespacePermissions |-> loadNamespacePermissions(cluster),
      viewPermissions |-> loadPodPermissions("kubelogPodViewPermissions", cluster),
      restartPermissions |-> loadPodPermissions("kubelogPodRestartPermissions", cluster) ]

(***************************************************************************)
(* The requests the model sends, and what Kwirth answers                   *)
(***************************************************************************)
\* the users that send requests: the user entity ref, and the groups the
\* catalog lists for the user
Nicklaus == [userEntityRef |-> ref_nicklaus, userGroups |-> <<>>]

NicklausAdmin == [userEntityRef |-> ref_nicklaus, userGroups |-> <<ref_admin>>]

NicklausCapitals == [userEntityRef |-> ref_Nicklaus, userGroups |-> <<ref_Admin>>]

Identities == { Nicklaus, NicklausAdmin, NicklausCapitals }

\* req.body.metadata.name
Entities == { pod_health, pod_kwirth, pod_common, ent_shop }

\* the requests: the endpoint, the scopes query split at the commas (empty when
\* the query has no scopes), the entity and the user
Request(endpoint, scopes, entityName, id) ==
    [ endpoint |-> endpoint, scopes |-> scopes, entityName |-> entityName, id |-> id ]

Requests ==
    { Request("access", <<"view">>, pod_health, NicklausAdmin),
      Request("access", <<"view">>, pod_health, NicklausCapitals),
      Request("access", <<"view">>, pod_kwirth, Nicklaus),
      Request("access", <<"view">>, pod_kwirth, NicklausAdmin),
      Request("access", <<"view">>, ent_shop, NicklausAdmin),
      Request("access", <<"restart">>, pod_kwirth, Nicklaus),
      Request("access", <<"restart">>, pod_kwirth, NicklausAdmin),
      Request("access", <<"view", "restart">>, pod_common, NicklausAdmin),
      Request("access", <<"filter", "api", "cluster", "2", "logs">>, pod_health, NicklausAdmin),
      Request("access", <<>>, pod_health, Nicklaus),
      Request("start", <<"view">>, pod_health, NicklausAdmin) }

\* the pods that carry the label of the entity, as /managecluster/find lists them
KwirthPods(entityName) ==
    IF entityName = pod_health
    THEN << [namespace |-> "stage", name |-> pod_health], [namespace |-> "others", name |-> pod_health] >>
    ELSE IF entityName = pod_kwirth
    THEN << [namespace |-> "stage", name |-> pod_kwirth], [namespace |-> "production", name |-> pod_kwirth] >>
    ELSE IF entityName = pod_common
    THEN << [namespace |-> "stage", name |-> pod_common], [namespace |-> "dev", name |-> pod_common] >>
    ELSE << [namespace |-> "stage", name |-> pod_health], [namespace |-> "stage", name |-> pod_kwirth] >>

(***************************************************************************)
(* addAccessKeys: what the loop body does for one pod                      *)
(***************************************************************************)
\* a loop body that asks for a key only when a block of the namespace grants it
PodDecisionBlockRequired(data, reqScope, foundCluster, podData, entityName, userEntityRef, userGroups) ==
    LET allowedToNamespace == checkNamespaceAccess(data, foundCluster, podData, userEntityRef, userGroups)
        clusterDefined == MapHas(data, foundCluster.name)
        clusterDef == IF clusterDefined THEN MapGet(data, foundCluster.name) ELSE <<>>
        podPermissionSet == getPodPermissionSet(reqScope, clusterDefined, clusterDef)
        usable == allowedToNamespace /\ ~podPermissionSet.threw /\ podPermissionSet.defined
        namespaceRestricted ==
            usable /\ \E i \in 1..Len(podPermissionSet.set) :
                          podPermissionSet.set[i].namespace = podData.namespace
        allowedToPod ==
            namespaceRestricted /\ checkPodAccess(data, foundCluster, podData, podPermissionSet.set,
                                                  entityName, userEntityRef, userGroups)
    IN  [ allowedToNamespace |-> allowedToNamespace,
          clusterDefined |-> clusterDefined,
          namespaceRestricted |-> namespaceRestricted,
          allowedToPod |-> allowedToPod,
          outcome |-> IF ~allowedToNamespace THEN "skip"
                      ELSE IF podPermissionSet.threw THEN "throw"
                      ELSE IF ~podPermissionSet.defined THEN "return"
                      ELSE IF allowedToPod THEN "key"
                      ELSE "skip" ]

\* a loop body that does not consult the namespace gate before it goes on to
\* the pod permissions
PodDecisionUngated(data, reqScope, foundCluster, podData, entityName, userEntityRef, userGroups) ==
    LET allowedToNamespace == checkNamespaceAccess(data, foundCluster, podData, userEntityRef, userGroups)
        clusterDefined == MapHas(data, foundCluster.name)
        clusterDef == IF clusterDefined THEN MapGet(data, foundCluster.name) ELSE <<>>
        podPermissionSet == getPodPermissionSet(reqScope, clusterDefined, clusterDef)
        usable == ~podPermissionSet.threw /\ podPermissionSet.defined
        namespaceRestricted ==
            usable /\ \E i \in 1..Len(podPermissionSet.set) :
                          podPermissionSet.set[i].namespace = podData.namespace
        allowedToPod ==
            namespaceRestricted /\ checkPodAccess(data, foundCluster, podData, podPermissionSet.set,
                                                  entityName, userEntityRef, userGroups)
    IN  [ allowedToNamespace |-> allowedToNamespace,
          clusterDefined |-> clusterDefined,
          namespaceRestricted |-> namespaceRestricted,
          allowedToPod |-> allowedToPod,
          outcome |-> IF podPermissionSet.threw THEN "throw"
                      ELSE IF ~podPermissionSet.defined THEN "return"
                      ELSE IF ~namespaceRestricted THEN "key"
                      ELSE IF allowedToPod THEN "key"
                      ELSE "skip" ]

\* outcome: "skip" the loop goes on with the next pod, "key" setAccessKey is
\* called, "return" the function returns, "throw" a TypeError escapes
PodDecision(data, reqScope, foundCluster, podData, entityName, userEntityRef, userGroups) ==
    LET allowedToNamespace == checkNamespaceAccess(data, foundCluster, podData, userEntityRef, userGroups)
        clusterDefined == MapHas(data, foundCluster.name)
        clusterDef == IF clusterDefined THEN MapGet(data, foundCluster.name) ELSE <<>>
        podPermissionSet == getPodPermissionSet(reqScope, clusterDefined, clusterDef)
        usable == allowedToNamespace /\ ~podPermissionSet.threw /\ podPermissionSet.defined
        namespaceRestricted ==
            usable /\ \E i \in 1..Len(podPermissionSet.set) :
                          podPermissionSet.set[i].namespace = podData.namespace
        allowedToPod ==
            namespaceRestricted /\ checkPodAccess(data, foundCluster, podData, podPermissionSet.set,
                                                  entityName, userEntityRef, userGroups)
    IN  [ allowedToNamespace |-> allowedToNamespace,
          clusterDefined |-> clusterDefined,
          namespaceRestricted |-> namespaceRestricted,
          allowedToPod |-> allowedToPod,
          outcome |-> IF ~allowedToNamespace THEN "skip"
                      ELSE IF podPermissionSet.threw THEN "throw"
                      ELSE IF ~podPermissionSet.defined THEN "return"
                      ELSE IF ~namespaceRestricted THEN "key"
                      ELSE IF allowedToPod THEN "key"
                      ELSE "skip" ]

\* the two loops of addAccessKeys from pod pi of cluster ci on, up to the next
\* call of setAccessKey, the return or the exception; acc collects what was
\* decided for each pod on the way
RECURSIVE RunLoop(_, _, _, _, _, _, _, _, _)
RunLoop(data, scopeStr, foundClusters, ci, pi, entityName, userEntityRef, userGroups, acc) ==
    IF ci > Len(foundClusters) THEN [ outcome |-> "return", ci |-> ci, pi |-> pi, evals |-> acc ]
    ELSE IF pi > Len(foundClusters[ci].data)
    THEN RunLoop(data, scopeStr, foundClusters, ci + 1, 1, entityName, userEntityRef, userGroups, acc)
    ELSE LET d == PodDecision(data, KWIRTH_SCOPE(scopeStr), foundClusters[ci], foundClusters[ci].data[pi],
                              entityName, userEntityRef, userGroups)
             e == [ scope |-> scopeStr, cluster |-> foundClusters[ci].name,
                    pod |-> foundClusters[ci].data[pi], entityName |-> entityName,
                    userEntityRef |-> userEntityRef, userGroups |-> userGroups,
                    decision |-> d ]
         IN  IF d.outcome = "skip"
             THEN RunLoop(data, scopeStr, foundClusters, ci, pi + 1, entityName, userEntityRef,
                          userGroups, Append(acc, e))
             ELSE [ outcome |-> d.outcome, ci |-> ci, pi |-> pi, evals |-> Append(acc, e) ]

(***************************************************************************)
(* Bounds                                                                  *)
(***************************************************************************)
\* the number of change notifications of the app-config after the start
MaxReloads == 1

\* the number of fetches of one request that fail or that Kwirth answers with
\* a status other than 200
MaxFaults == 1

(***************************************************************************)
(* State                                                                   *)
(***************************************************************************)
VARIABLES
    config,             \* the app-config of the RootConfigService
    clusterKubelogData, \* KubelogStaticData.clusterKubelogData
    loads,              \* the loadClusters invocations suspended at their fetch:
                        \* the clusters each read, and the index of the one it is at
    reloads,            \* the number of change notifications so far
    req,                \* the request being processed and where it is suspended
    evals               \* what the step just taken decided for each pod it examined

vars == << config, clusterKubelogData, loads, reloads, req, evals >>

Idle == [ pc |-> "idle" ]

\* the request is suspended inside the handler
InFlight == req.pc \in { "gvc", "scope", "key", "loop" }

(***************************************************************************)
(* loadClusters                                                            *)
(***************************************************************************)
\* from the call to the first await: the Map is cleared, the config is read,
\* and the loop runs to the first cluster it registers
StartLoad(locatingMethods) ==
    LET clusters == AllClusters(locatingMethods)
        first == NextKwirth(clusters, 1)
    IN  /\ clusterKubelogData' = <<>>
        /\ loads' = IF first = 0 THEN loads
                    ELSE Append(loads, [ clusters |-> clusters, idx |-> first ])
        \* a Map iterator that is open when the Map is cleared goes on with the
        \* entries that are set afterwards
        /\ req' = IF req.pc = "gvc" THEN [ req EXCEPT !.it = 0 ] ELSE req

\* the change notification of configSvc.subscribe: loadClusters is called again
ConfigChange ==
    /\ reloads < MaxReloads
    /\ reloads' = reloads + 1
    /\ \E c \in Configs :
          /\ config' = c
          /\ StartLoad(c)
    /\ evals' = <<>>

\* the change notification when the new app-config has no
\* kubernetes.clusterLocatorMethods: loadClusters clears the Map, getConfigArray
\* throws and the call ends there; config is then the empty list
ConfigChangeThrows ==
    /\ reloads < MaxReloads
    /\ reloads' = reloads + 1
    /\ config' = <<>>
    /\ clusterKubelogData' = <<>>
    /\ req' = IF req.pc = "gvc" THEN [ req EXCEPT !.it = 0 ] ELSE req
    /\ evals' = <<>>
    /\ UNCHANGED loads

\* a suspended loadClusters resumes after its fetch of /config/version: it
\* compiles the permissions of the cluster, stores it, and runs to the next
\* cluster it registers or to its end
LoadResume ==
    \E k \in 1..Len(loads) :
        LET l == loads[k]
            cluster == l.clusters[l.idx]
            next == NextKwirth(l.clusters, l.idx + 1)
        IN  /\ clusterKubelogData' = MapSet(clusterKubelogData, cluster.name, ClusterData(cluster))
            /\ loads' = IF next = 0
                        THEN SubSeq(loads, 1, k - 1) \o SubSeq(loads, k + 1, Len(loads))
                        ELSE [ loads EXCEPT ![k].idx = next ]
            /\ UNCHANGED << config, reloads, req >>
            /\ evals' = <<>>

(***************************************************************************)
(* getValidClusters                                                        *)
(***************************************************************************)
\* the for loop over clusterKubelogData.keys() takes the next key, the it-th
\* being the last one taken, and suspends at its fetch; without a next key the
\* function returns
GvcAdvance(r) ==
    IF r.it < Len(clusterKubelogData)
    THEN LET c == clusterKubelogData[r.it + 1]
         IN  [ r EXCEPT !.pc = "gvc", !.it = r.it + 1,
                        !.pending = [ name |-> c.name, url |-> c.kwirthHome, title |-> c.title ] ]
    ELSE [ pc |-> "scope", endpoint |-> r.endpoint, scopes |-> r.scopes, sidx |-> 1,
           entityName |-> r.entityName,
           userEntityRef |-> r.userEntityRef, userGroups |-> r.userGroups,
           foundClusters |-> r.foundClusters, ci |-> 1, pi |-> 1, keys |-> {},
           faults |-> r.faults ]

NewRequest(endpoint, scopes, entityName, id) ==
    [ pc |-> "gvc", endpoint |-> endpoint, scopes |-> scopes, entityName |-> entityName,
      userEntityRef |-> id.userEntityRef, userGroups |-> id.userGroups,
      it |-> 0, pending |-> <<>>, foundClusters |-> <<>>, faults |-> 0 ]

\* POST /access: without a scopes query the answer is 400
processAccess ==
    /\ ~InFlight
    /\ \E r \in Requests :
          /\ r.endpoint = "access"
          /\ req' = IF r.scopes = <<>>
                    THEN [ pc |-> "sent", status |-> 400 ]
                    ELSE GvcAdvance(NewRequest("access", r.scopes, r.entityName, r.id))
    /\ evals' = <<>>
    /\ UNCHANGED << config, clusterKubelogData, loads, reloads >>

\* POST /start: the view scope, the key is stored as accessKey
processStart ==
    /\ ~InFlight
    /\ \E r \in Requests :
          /\ r.endpoint = "start"
          /\ req' = GvcAdvance(NewRequest("start", <<"view">>, r.entityName, r.id))
    /\ evals' = <<>>
    /\ UNCHANGED << config, clusterKubelogData, loads, reloads >>

\* the fetch of /managecluster/find of the pending cluster ends: with status 200
\* and the pods of the entity, or with another status or an error and data []
GvcResume ==
    /\ req.pc = "gvc"
    /\ \E ok \in BOOLEAN :
          LET data == IF ok THEN KwirthPods(req.entityName) ELSE <<>>
              entry == [ name |-> req.pending.name, url |-> req.pending.url,
                         title |-> req.pending.title, data |-> data ]
          IN  /\ ok \/ req.faults < MaxFaults
              /\ req' = GvcAdvance([ req EXCEPT !.foundClusters = Append(@, entry),
                                                !.faults = IF ok THEN @ ELSE @ + 1 ])
    /\ evals' = <<>>
    /\ UNCHANGED << config, clusterKubelogData, loads, reloads >>

(***************************************************************************)
(* addAccessKeys and setAccessKey                                          *)
(***************************************************************************)
\* the name of the pod property that receives the access key
KeyName(r) == IF r.endpoint = "start" THEN "accessKey" ELSE r.scopes[r.sidx] \o "AccessKey"

\* the handler goes on after getValidClusters or after an addAccessKeys has
\* returned: the response is sent when no scope is left, and addAccessKeys
\* returns at once for a scope that KWIRTH_SCOPE does not know
NextScope ==
    /\ req.pc = "scope"
    /\ IF req.sidx > Len(req.scopes)
       THEN req' = [ pc |-> "sent", status |-> 200,
                     foundClusters |-> req.foundClusters, keys |-> req.keys ]
       ELSE /\ KWIRTH_SCOPE(req.scopes[req.sidx]).t = "undefined"
            /\ req' = [ req EXCEPT !.sidx = req.sidx + 1 ]
    /\ evals' = <<>>
    /\ UNCHANGED << config, clusterKubelogData, loads, reloads >>

\* addAccessKeys runs to its next suspension: from its call for the next scope,
\* or from the return of setAccessKey, on to the next call of setAccessKey, to
\* its return or to the exception that ends the handler
addAccessKeys ==
    /\ IF req.pc = "scope"
       THEN req.sidx <= Len(req.scopes) /\ KWIRTH_SCOPE(req.scopes[req.sidx]).t # "undefined"
       ELSE req.pc = "loop"
    /\ \E res \in { RunLoop(clusterKubelogData, req.scopes[req.sidx], req.foundClusters,
                            IF req.pc = "scope" THEN 1 ELSE req.ci,
                            IF req.pc = "scope" THEN 1 ELSE req.pi + 1,
                            req.entityName, req.userEntityRef, req.userGroups, <<>>) } :
          /\ evals' = res.evals
          /\ req' = IF res.outcome = "key"
                    THEN [ req EXCEPT !.pc = "key", !.ci = res.ci, !.pi = res.pi ]
                    ELSE IF res.outcome = "throw"
                    THEN [ pc |-> "threw" ]
                    ELSE [ req EXCEPT !.pc = "scope", !.sidx = req.sidx + 1, !.ci = 1, !.pi = 1 ]
    /\ UNCHANGED << config, clusterKubelogData, loads, reloads >>

\* a setAccessKey that keeps the access key in the entry of the cluster
setAccessKeyInRegistry ==
    /\ req.pc = "key"
    /\ \E fetchResp \in { "200", "500", "error" } :
          /\ fetchResp = "200" \/ req.faults < MaxFaults
          /\ req' = IF fetchResp = "error"
                    THEN [ pc |-> "threw" ]
                    ELSE [ req EXCEPT !.pc = "loop",
                                      !.keys = IF fetchResp = "200"
                                               THEN @ \cup { << req.ci, req.pi, KeyName(req) >> }
                                               ELSE @,
                                      !.faults = IF fetchResp = "200" THEN @ ELSE @ + 1 ]
          /\ clusterKubelogData' =
                 IF fetchResp = "200" /\ MapHas(clusterKubelogData, req.foundClusters[req.ci].name)
                 THEN MapSet(clusterKubelogData, req.foundClusters[req.ci].name,
                             [ MapGet(clusterKubelogData, req.foundClusters[req.ci].name)
                                 EXCEPT !.kwirthApiKeyStr = KeyName(req) ])
                 ELSE clusterKubelogData
    /\ evals' = <<>>
    /\ UNCHANGED << config, loads, reloads >>

\* setAccessKey resumes after its fetch of /key: with status 200 the access key
\* is set on the pod, with another status it is not, and then it returns to
\* addAccessKeys; a fetch that fails throws, and the exception ends the handler
setAccessKey ==
    /\ req.pc = "key"
    /\ \E fetchResp \in { "200", "500", "error" } :
          /\ fetchResp = "200" \/ req.faults < MaxFaults
          /\ req' = IF fetchResp = "error"
                    THEN [ pc |-> "threw" ]
                    ELSE [ req EXCEPT !.pc = "loop",
                                      !.keys = IF fetchResp = "200"
                                               THEN @ \cup { << req.ci, req.pi, KeyName(req) >> }
                                               ELSE @,
                                      !.faults = IF fetchResp = "200" THEN @ ELSE @ + 1 ]
    /\ evals' = <<>>
    /\ UNCHANGED << config, clusterKubelogData, loads, reloads >>

(***************************************************************************)
(* Specification                                                           *)
(***************************************************************************)
\* createRouter has run: loadClusters was called on the config of the start
Init ==
    /\ config \in Configs
    /\ clusterKubelogData = <<>>
    /\ loads = LET clusters == AllClusters(config)
                   first == NextKwirth(clusters, 1)
               IN  IF first = 0 THEN <<>> ELSE << [ clusters |-> clusters, idx |-> first ] >>
    /\ reloads = 0
    /\ req = Idle
    /\ evals = <<>>

Next ==
    \/ ConfigChange
    \/ ConfigChangeThrows
    \/ LoadResume
    \/ processAccess
    \/ processStart
    \/ GvcResume
    \/ NextScope
    \/ addAccessKeys
    \/ setAccessKey

Spec == Init /\ [][Next]_vars

(***************************************************************************)
(* What the properties below read from a decision of addAccessKeys         *)
(***************************************************************************)
\* the cluster of the decision is in the registry
Registered(e) == MapHas(clusterKubelogData, e.cluster)

\* the permission set that the scope of the decision selects in the registry
ScopeSet(e) ==
    IF KWIRTH_SCOPE(e.scope) = ScopeView
    THEN MapGet(clusterKubelogData, e.cluster).viewPermissions
    ELSE MapGet(clusterKubelogData, e.cluster).restartPermissions

\* the set has a block for the namespace of the pod
HasBlock(e) == \E i \in 1..Len(ScopeSet(e)) : ScopeSet(e)[i].namespace = e.pod.namespace

\* the decision led to the call of setAccessKey
KeyRequested(e) == e.decision.outcome = "key"

(***************************************************************************)
(* C1: addAccessKeys calls setAccessKey for a pod only if                  *)
(* checkNamespaceAccess is true for the pod and either the permission set  *)
(* of the scope has no block for the namespace of the pod or               *)
(* checkPodAccess is true, whatever requests and reloads came before.      *)
(***************************************************************************)
KeyOnlyWhenGateAndPodAllow ==
    \A k \in 1..Len(evals) :
        KeyRequested(evals[k]) =>
            /\ checkNamespaceAccess(clusterKubelogData, [name |-> evals[k].cluster], evals[k].pod,
                                    evals[k].userEntityRef, evals[k].userGroups)
            /\ Registered(evals[k])
            /\ \/ ~HasBlock(evals[k])
               \/ checkPodAccess(clusterKubelogData, [name |-> evals[k].cluster], evals[k].pod,
                                 ScopeSet(evals[k]), evals[k].entityName,
                                 evals[k].userEntityRef, evals[k].userGroups)

\* a key is requested for a pod whose namespace has a gate rule and a block,
\* after a reload, in a run of the loop that skipped another pod
KeyAfterGateAndPodAllow ==
    /\ reloads > 0
    /\ req.pc = "key"
    /\ \E k \in 1..Len(evals) :
          /\ KeyRequested(evals[k])
          /\ Registered(evals[k])
          /\ HasBlock(evals[k])
          /\ \E i \in 1..Len(MapGet(clusterKubelogData, evals[k].cluster).namespacePermissions) :
                 MapGet(clusterKubelogData, evals[k].cluster).namespacePermissions[i].namespace
                     = evals[k].pod.namespace
    /\ \E k \in 1..Len(evals) : evals[k].decision.outcome = "skip"


(***************************************************************************)
(* The evaluators as functions: a second specification whose initial       *)
(* states are the registries that a load of a configuration goes through,  *)
(* and whose actions apply checkNamespaceAccess, checkPodAccess and        *)
(* checkPodPermissionRule to arguments drawn from the sets below.  evals   *)
(* holds the last call.                                                    *)
(***************************************************************************)
\* the clusters of a configuration that loadClusters registers, in order
Registrable(locatingMethods) == SelectSeq(AllClusters(locatingMethods), HasKwirth)

\* the registry after 0, 1, ... clusters of a configuration were stored
Registries ==
    UNION { { [ i \in 1..n |-> ClusterData(Registrable(c)[i]) ] : n \in 0..Len(Registrable(c)) } :
            c \in Configs }

GateClusters == { "k1", "k2", "k3" }

GateNamespaces == { "stage", "production", "others", "dev" }

GateUserRefs == { ref_nicklaus, ref_Nicklaus, ref_ada, ref_devops }

GateUserGroups == { <<>>, <<ref_admin>>, <<ref_Admin>>, <<ref_ada, ref_devops>> }

\* compiled rules: everybody, nobody, the pod kwirth
RuleAny == [ pods |-> <<re_any>>, refs |-> <<re_any>> ]

RuleNobody == [ pods |-> <<re_any>>, refs |-> <<>> ]

RuleKwirth == [ pods |-> <<re_kwirth>>, refs |-> <<re_any>> ]

RuleAdmins == [ pods |-> <<re_any>>, refs |-> <<ref_admin>> ]

\* KubelogPodPermissions objects: allow, except, deny and unless are optional
BlockBare == [ namespace |-> "stage" ]

BlockDenyOnly == [ namespace |-> "stage", deny |-> <<RuleAny>> ]

BlockNoAllow == [ namespace |-> "stage", except |-> <<RuleAny>>, deny |-> <<RuleAny>>, unless |-> <<>> ]

BlockNobody == [ namespace |-> "stage", allow |-> <<RuleNobody>> ]

BlockKwirth == [ namespace |-> "stage", allow |-> <<RuleKwirth>> ]

BlockAdmins == [ namespace |-> "stage", allow |-> <<RuleAdmins>> ]

BlockProduction == [ namespace |-> "production", deny |-> <<RuleAny>> ]

\* allow lists of two rules of which one matches, and the empty allow list
BlockAnyThenNobody == [ namespace |-> "stage", allow |-> <<RuleAny, RuleNobody>> ]

BlockNobodyThenAny == [ namespace |-> "stage", allow |-> <<RuleNobody, RuleAny>> ]

BlockKwirthThenAdmins == [ namespace |-> "stage", allow |-> <<RuleKwirth, RuleAdmins>> ]

BlockEmptyAllow == [ namespace |-> "stage", allow |-> <<>> ]

\* allow for everybody, refined by except, by deny and by unless
BlockExceptKwirth ==
    [ namespace |-> "stage", allow |-> <<RuleAny>>, except |-> <<RuleNobody, RuleKwirth>> ]

BlockExceptDenied ==
    [ namespace |-> "stage", allow |-> <<RuleAny>>, except |-> <<RuleKwirth>>,
      deny |-> <<RuleAny>>, unless |-> <<RuleAny>> ]

BlockDenyKwirth ==
    [ namespace |-> "stage", allow |-> <<RuleAny>>, deny |-> <<RuleKwirth, RuleNobody>> ]

BlockDenyUnlessAdmins ==
    [ namespace |-> "stage", allow |-> <<RuleAny>>, deny |-> <<RuleKwirth>>,
      unless |-> <<RuleNobody, RuleAdmins>> ]

BlockDenyEmptyUnless ==
    [ namespace |-> "stage", allow |-> <<RuleAny>>, deny |-> <<RuleAny>>, unless |-> <<>> ]

PodPermissionSets ==
    { <<>>, <<BlockBare>>, <<BlockDenyOnly>>, <<BlockNoAllow>>, <<BlockNobody>>, <<BlockKwirth>>,
      <<BlockAdmins>>, <<BlockAnyThenNobody>>, <<BlockNobodyThenAny>>, <<BlockKwirthThenAdmins>>,
      <<BlockEmptyAllow>>,
      <<BlockExceptKwirth>>, <<BlockExceptKwirth, BlockAdmins>>, <<BlockExceptDenied>>,
      <<BlockDenyKwirth>>, <<BlockDenyKwirth, BlockKwirth>>, <<BlockDenyUnlessAdmins>>,
      <<BlockDenyEmptyUnless>>,
      <<BlockNobody, BlockDenyOnly>>, <<BlockKwirth, BlockNoAllow>>, <<BlockBare, BlockNobody>>,
      <<BlockProduction, BlockNobody>>, <<BlockProduction, BlockKwirth, BlockBare>> }

EvalPods ==
    { [namespace |-> "stage", name |-> pod_health], [namespace |-> "stage", name |-> pod_kwirth],
      [namespace |-> "production", name |-> pod_kwirth], [namespace |-> "dev", name |-> pod_common] }

\* a call of checkNamespaceAccess, the first call of the behaviour
EvalGate ==
    /\ evals = <<>>
    /\ \E cluster \in GateClusters, namespace \in GateNamespaces,
          u \in GateUserRefs, g \in GateUserGroups :
          evals' = << [ fn |-> "checkNamespaceAccess", cluster |-> cluster,
                        pod |-> [namespace |-> namespace, name |-> pod_health],
                        userEntityRef |-> u, userGroups |-> g,
                        result |-> checkNamespaceAccess(clusterKubelogData, [name |-> cluster],
                                       [namespace |-> namespace, name |-> pod_health], u, g) ] >>
    /\ UNCHANGED << config, clusterKubelogData, loads, reloads, req >>

\* a call of checkPodAccess, the first call of the behaviour
EvalPodAccess ==
    /\ evals = <<>>
    /\ \E cluster \in GateClusters, pod \in EvalPods, set \in PodPermissionSets,
          u \in { ref_nicklaus, ref_ada }, g \in { <<>>, <<ref_admin>>, <<ref_Admin>> } :
          evals' = << [ fn |-> "checkPodAccess", cluster |-> cluster, pod |-> pod, set |-> set,
                        entityName |-> pod.name, userEntityRef |-> u, userGroups |-> g,
                        result |-> checkPodAccess(clusterKubelogData, [name |-> cluster], pod, set,
                                                  pod.name, u, g) ] >>
    /\ UNCHANGED << config, clusterKubelogData, loads, reloads, req >>

\* rules as the app-config gives them: pods and refs are optional lists
RuleConfigs ==
    { <<>>,
      [ pods |-> <<re_kwirth>> ],
      [ refs |-> <<ref_admin>> ],
      [ pods |-> <<>> ],
      [ refs |-> <<>> ],
      [ pods |-> <<>>, refs |-> <<>> ],
      [ pods |-> <<re_common, re_kwirth>>, refs |-> <<ref_devops, ref_admin>> ],
      [ pods |-> <<re_th, re_ef>>, refs |-> <<re_testany, ref_nicklaus>> ] }

RuleNames == { pod_health, pod_kwirth, pod_common, ent_shop }

RuleUserRefs == { ref_nicklaus, ref_Nicklaus, ref_ada }

RuleUserGroups == { <<>>, <<ref_admin>>, <<ref_devops, ref_Admin>> }

\* a rule is compiled as loadPodRules compiles it and checkPodPermissionRule
\* is called with it, the first call of the behaviour
EvalRule ==
    /\ evals = <<>>
    /\ \E rule \in RuleConfigs, entityName \in RuleNames,
          u \in RuleUserRefs, g \in RuleUserGroups :
          evals' = << [ fn |-> "checkPodPermissionRule", rule |-> rule, ppr |-> CompileRule(rule),
                        entityName |-> entityName, userEntityRef |-> u, userGroups |-> g,
                        result |-> checkPodPermissionRule(CompileRule(rule), entityName, u, g) ] >>
    /\ UNCHANGED << config, clusterKubelogData, loads, reloads, req >>

\* loadClusters from cluster i on, when no other call runs between its awaits
RECURSIVE LoadFrom(_, _, _)
LoadFrom(data, clusters, i) ==
    IF i > Len(clusters) THEN data
    ELSE IF HasKwirth(clusters[i])
    THEN LoadFrom(MapSet(data, clusters[i].name, ClusterData(clusters[i])), clusters, i + 1)
    ELSE LoadFrom(data, clusters, i + 1)

\* a call that keeps the entries of the registry and adds its own after them
RunLoadAccumulating(data, locatingMethods) ==
    data \o LoadFrom(<<>>, AllClusters(locatingMethods), 1)

\* a whole call of loadClusters on the registry data: the Map is cleared and
\* the clusters of the configuration are stored
RunLoad(data, locatingMethods) == LoadFrom(<<>>, AllClusters(locatingMethods), 1)

\* loadClusters is called twice in succession with the same configuration,
\* the second call after the first has returned; evals keeps the registry
\* that the first call left
EvalLoad ==
    /\ evals = <<>>
    /\ \E c \in Configs :
          \E first \in { RunLoad(clusterKubelogData, c) } :
              /\ clusterKubelogData' = RunLoad(first, c)
              /\ evals' = << [ fn |-> "loadClusters", config |-> c, first |-> first ] >>
    /\ UNCHANGED << config, loads, reloads, req >>

\* a cluster whose view permissions have an entry with except, deny and unless
\* and without allow, and an entry with allow
NoAllowCluster ==
    [ name |-> "k3", kubelogKwirthHome |-> "http://k3/kwirth", kubelogKwirthApiKey |-> "key3",
      kubelogPodViewPermissions |->
          << "stage" :> [ except |-> << [pods |-> <<re_kwirth>>] >>,
                          deny   |-> << [refs |-> <<re_any>>] >>,
                          unless |-> << [refs |-> <<ref_admin>>] >> ],
             "others" :> [ allow |-> << [refs |-> <<ref_admin>>] >>,
                           deny  |-> << [pods |-> <<re_kwirth>>] >> ] >> ]

\* the cluster configs that are compiled
CompiledClusters == { ReadmeCluster, ScenarioCluster, DeprecatedCluster, NoAllowCluster }

\* a call of loadPodPermissions, the first call of the behaviour
EvalCompile ==
    /\ evals = <<>>
    /\ \E cluster \in CompiledClusters,
          configKey \in { "kubelogPodViewPermissions", "kubelogPodRestartPermissions" } :
          evals' = << [ fn |-> "loadPodPermissions", cluster |-> cluster, configKey |-> configKey,
                        result |-> loadPodPermissions(configKey, cluster) ] >>
    /\ UNCHANGED << config, clusterKubelogData, loads, reloads, req >>

EvalInit ==
    /\ config = <<>>
    /\ clusterKubelogData \in Registries
    /\ loads = <<>>
    /\ reloads = 0
    /\ req = Idle
    /\ evals = <<>>

EvalNext == EvalGate \/ EvalPodAccess \/ EvalRule \/ EvalLoad \/ EvalCompile

EvalSpec == EvalInit /\ [][EvalNext]_vars

\* the last call was one of checkNamespaceAccess, for a cluster of the registry
GateCall(e) == e.fn = "checkNamespaceAccess" /\ Registered(e)

\* the indexes of the namespacePermissions entries of a cluster for a namespace
GateEntries(clusterData, namespace) ==
    { i \in 1..Len(clusterData.namespacePermissions) :
          clusterData.namespacePermissions[i].namespace = namespace }

\* the identity refs of the first of them, as a set
GateRefs(clusterData, namespace) ==
    LET first == CHOOSE i \in GateEntries(clusterData, namespace) :
                     \A j \in GateEntries(clusterData, namespace) : i <= j
        refs == clusterData.namespacePermissions[first].identityRefs
    IN  { refs[j] : j \in 1..Len(refs) }

\* the entries and the refs for the cluster and the namespace of a call
EntriesOf(e) == GateEntries(MapGet(clusterKubelogData, e.cluster), e.pod.namespace)

RefsOf(e) == GateRefs(MapGet(clusterKubelogData, e.cluster), e.pod.namespace)

(***************************************************************************)
(* C2: for every cluster of the registry and every namespace for which     *)
(* the cluster has no namespacePermissions entry, checkNamespaceAccess is  *)
(* true for every user ref and every list of groups.                       *)
(***************************************************************************)
GateOpenWithoutEntry ==
    \A k \in 1..Len(evals) :
        GateCall(evals[k]) /\ EntriesOf(evals[k]) = {} => evals[k].result

\* the gate was asked about a namespace without an entry in a cluster that
\* has entries for other namespaces, for a user that these entries do not name
GateOpenWithoutEntryHappens ==
    \E k \in 1..Len(evals) :
        /\ GateCall(evals[k])
        /\ EntriesOf(evals[k]) = {}
        /\ MapGet(clusterKubelogData, evals[k].cluster).namespacePermissions # <<>>
        /\ evals[k].userEntityRef = ref_ada
        /\ evals[k].userGroups = <<>>
        /\ evals[k].result

(***************************************************************************)
(* C3: when the cluster has a namespacePermissions entry for the namespace *)
(* of the pod, checkNamespaceAccess is true exactly when the lower-cased   *)
(* user ref is one of its identityRefs or one of the groups is one of its  *)
(* identityRefs, by equality; so an entry with no identityRefs lets nobody *)
(* pass.                                                                   *)
(***************************************************************************)
GateIsMembership ==
    \A k \in 1..Len(evals) :
        GateCall(evals[k]) /\ EntriesOf(evals[k]) # {} =>
            /\ evals[k].result <=>
                  \/ toLowerCase(evals[k].userEntityRef) \in RefsOf(evals[k])
                  \/ \E j \in 1..Len(evals[k].userGroups) : evals[k].userGroups[j] \in RefsOf(evals[k])
            /\ RefsOf(evals[k]) = {} => ~evals[k].result

\* the gate let a user pass for a group, the user ref not being in the entry
GateByGroupHappens ==
    \E k \in 1..Len(evals) :
        /\ GateCall(evals[k])
        /\ EntriesOf(evals[k]) # {}
        /\ toLowerCase(evals[k].userEntityRef) \notin RefsOf(evals[k])
        /\ evals[k].userGroups # <<>>
        /\ evals[k].result

(***************************************************************************)
(* C4: identity refs are compared without regard to letter case: a call of *)
(* checkNamespaceAccess, and the rule matching of a call of                *)
(* checkPodAccess, gives what it gives for the lower-cased user ref and    *)
(* the lower-cased groups.                                                 *)
(***************************************************************************)
LowerAll(refs) == [ j \in 1..Len(refs) |-> toLowerCase(refs[j]) ]

IdentityCaseIgnored ==
    \A k \in 1..Len(evals) :
        /\ evals[k].fn = "checkNamespaceAccess" =>
              evals[k].result =
                  checkNamespaceAccess(clusterKubelogData, [name |-> evals[k].cluster], evals[k].pod,
                                       toLowerCase(evals[k].userEntityRef), LowerAll(evals[k].userGroups))
        /\ evals[k].fn = "checkPodAccess" =>
              evals[k].result =
                  checkPodAccess(clusterKubelogData, [name |-> evals[k].cluster], evals[k].pod,
                                 evals[k].set, evals[k].entityName,
                                 toLowerCase(evals[k].userEntityRef), LowerAll(evals[k].userGroups))

OnReadme(e) ==
    Registered(e) /\ MapGet(clusterKubelogData, e.cluster) = ClusterData(ReadmeCluster)

\* the decision was taken on cluster k2 with the allow/except block for stage
OnScenario(e) ==
    Registered(e) /\ MapGet(clusterKubelogData, e.cluster) = ClusterData(ScenarioCluster)

(***************************************************************************)
(* C5: the pods patterns are tested on the name of the pod: the decision   *)
(* of addAccessKeys for a pod is what checkPodAccess gives for the name of *)
(* that pod.                                                               *)
(***************************************************************************)
PodsPatternsOnPodName ==
    \A k \in 1..Len(evals) :
        evals[k].decision.namespaceRestricted =>
            evals[k].decision.allowedToPod =
                checkPodAccess(clusterKubelogData, [name |-> evals[k].cluster], evals[k].pod,
                               ScopeSet(evals[k]), evals[k].pod.name,
                               evals[k].userEntityRef, evals[k].userGroups)

(***************************************************************************)
(* C7: with the production block of the README (no allow, a deny for       *)
(* everybody) nobody gets a key for a pod of production in the view scope. *)
(***************************************************************************)
ProductionGrantsNobody ==
    \A k \in 1..Len(evals) :
        ( /\ OnReadme(evals[k])
          /\ evals[k].scope = "view"
          /\ evals[k].pod.namespace = "production" )
        => ~KeyRequested(evals[k])

(***************************************************************************)
(* C8: the allow section matches when any of its rules matches: with the   *)
(* stage block of the README every user that passed the gate gets a key    *)
(* for a pod whose name starts with common-.                               *)
(***************************************************************************)
CommonGrantedToAll ==
    \A k \in 1..Len(evals) :
        ( /\ OnReadme(evals[k])
          /\ evals[k].scope = "view"
          /\ evals[k].pod.namespace = "stage"
          /\ RegExpTest(re_common, evals[k].pod.name)
          /\ evals[k].entityName = evals[k].pod.name
          /\ evals[k].decision.allowedToNamespace )
        => KeyRequested(evals[k])

(***************************************************************************)
(* C9: with allow th$ for everybody and except kwirth for the admin group  *)
(* in stage, nicklaus-wirth gets the pod health; the pod kwirth is denied  *)
(* without the admin group and granted with it.                            *)
(***************************************************************************)
ExceptKeepsAdmins ==
    \A k \in 1..Len(evals) :
        ( /\ OnScenario(evals[k])
          /\ evals[k].scope = "view"
          /\ evals[k].pod.namespace = "stage"
          /\ evals[k].entityName = evals[k].pod.name
          /\ evals[k].userEntityRef = ref_nicklaus )
        => /\ evals[k].pod.name = pod_health => KeyRequested(evals[k])
           /\ evals[k].pod.name = pod_kwirth =>
                 ( KeyRequested(evals[k])
                   <=> \E j \in 1..Len(evals[k].userGroups) : evals[k].userGroups[j] = ref_admin )

(***************************************************************************)
(* C10: when the permission set of the scope has no block for the          *)
(* namespace of the pod, addAccessKeys asks for a key for every user that  *)
(* passed the gate, in the view and in the restart scope.                  *)
(***************************************************************************)
KeyWhenNoBlock ==
    \A k \in 1..Len(evals) :
        ( /\ evals[k].scope \in { "view", "restart" }
          /\ Registered(evals[k])
          /\ evals[k].decision.allowedToNamespace
          /\ ~HasBlock(evals[k]) )
        => KeyRequested(evals[k])

\* in the restart scope a key is asked for a pod of a namespace that has a
\* gate entry and no block, in a cluster that has blocks in its view set
KeyWhenNoBlockHappens ==
    \E k \in 1..Len(evals) :
        /\ evals[k].scope = "restart"
        /\ Registered(evals[k])
        /\ EntriesOf(evals[k]) # {}
        /\ ~HasBlock(evals[k])
        /\ MapGet(clusterKubelogData, evals[k].cluster).viewPermissions # <<>>
        /\ KeyRequested(evals[k])

(***************************************************************************)
(* C11: checkPodAccess is false for every pod, user and permission set     *)
(* when the name of the cluster is not a key of the registry.              *)
(***************************************************************************)
PodAccessDeniedOnUnknownCluster ==
    \A k \in 1..Len(evals) :
        evals[k].fn = "checkPodAccess" /\ ~Registered(evals[k]) => ~evals[k].result

\* checkPodAccess was called for a cluster that is not in a registry that
\* holds other clusters, with a permission set that grants in a known cluster
PodAccessOnUnknownClusterHappens ==
    \E k \in 1..Len(evals) :
        /\ evals[k].fn = "checkPodAccess"
        /\ clusterKubelogData # <<>>
        /\ ~Registered(evals[k])
        /\ evals[k].set = <<BlockBare>>
        /\ evals[k].pod.namespace = "stage"
        /\ ~evals[k].result

(***************************************************************************)
(* C12: the namespace gate is closed for a cluster that is not a key of    *)
(* the registry: addAccessKeys finds checkNamespaceAccess false for every  *)
(* pod of a cluster that a reload has removed or not yet stored again.     *)
(***************************************************************************)
GateClosedOnUnknownCluster ==
    \A k \in 1..Len(evals) :
        ~Registered(evals[k])
            => ~evals[k].decision.allowedToNamespace

(***************************************************************************)
(* C13: for a scope string other than view and restart (a member of the    *)
(* enumeration without permission set, the number of a member, or a name   *)
(* the enumeration does not have) addAccessKeys calls setAccessKey for no  *)
(* pod, and the pods of the request carry no key of such a scope.          *)
(***************************************************************************)
NoKeyForOtherScopes ==
    /\ \A k \in 1..Len(evals) :
          evals[k].scope \notin { "view", "restart" } => ~KeyRequested(evals[k])
    /\ "keys" \in DOMAIN req =>
          \A key \in req.keys : key[3] \in { "accessKey", "viewAccessKey", "restartAccessKey" }

\* addAccessKeys returned at a pod whose namespace gate was open, in a
\* registered cluster, for the scope string "2"
OtherScopeReturns ==
    \E k \in 1..Len(evals) :
        /\ evals[k].scope = "2"
        /\ Registered(evals[k])
        /\ evals[k].decision.allowedToNamespace
        /\ evals[k].decision.outcome = "return"

(***************************************************************************)
(* The registry that a load of a configuration produces when it runs alone *)
(***************************************************************************)
FullRegistry(locatingMethods) ==
    [ i \in 1..Len(Registrable(locatingMethods)) |-> ClusterData(Registrable(locatingMethods)[i]) ]

\* the entries of a registry, without their order
Entries(data) == { data[i] : i \in 1..Len(data) }

(***************************************************************************)
(* C14: a request that runs while a reload runs finds, at each of its      *)
(* reads, the complete registry of the configuration before the change or  *)
(* of the configuration after it, never an empty or partly built one.      *)
(***************************************************************************)
RequestSeesSnapshot ==
    reloads > 0 /\ evals # <<>> =>
        \E c \in Configs : Entries(clusterKubelogData) = Entries(FullRegistry(c))

(***************************************************************************)
(* C15: a reload that fails leaves the registry as it was before the       *)
(* reload started: the step in which loadClusters is called and throws at  *)
(* its read of kubernetes.clusterLocatorMethods does not change the        *)
(* registry.                                                               *)
(***************************************************************************)
FailedReloadKeepsRegistry ==
    [][ConfigChangeThrows => clusterKubelogData' = clusterKubelogData]_vars

\* the keys of a registry
Keys(data) == { data[i].name : i \in 1..Len(data) }

\* the step is the return of the reload of the current configuration: the last
\* call of loadClusters ends while every call made so far was still running
ReloadReturns ==
    /\ reloads > 0
    /\ Len(loads) = reloads + 1
    /\ loads[Len(loads)].clusters = AllClusters(config)
    /\ loads' = SubSeq(loads, 1, Len(loads) - 1)

(***************************************************************************)
(* C16: when a reload returns, the keys of the registry are the names of   *)
(* the clusters of the new configuration that declare a home URL and an    *)
(* API key, and no other cluster is left in it.                            *)
(***************************************************************************)
ReloadInstallsNewConfig ==
    [][ReloadReturns =>
          Keys(clusterKubelogData') = Keys(FullRegistry(config))]_vars

\* the cluster declares a home URL and an API key, and the entry has its
\* name, its home URL and its API key
Declares(cluster, entry) ==
    /\ HasKwirth(cluster)
    /\ cluster.name = entry.name
    /\ OptionalEither(cluster, "kwirthHome", "kubelogKwirthHome") = entry.kwirthHome
    /\ OptionalEither(cluster, "kwirthApiKey", "kubelogKwirthApiKey") = entry.kwirthApiKeyStr

(***************************************************************************)
(* C17: a cluster that lacks the home URL or the API key is never added to *)
(* the registry, and the load goes on with the clusters after it: every    *)
(* entry of the registry has the name, the home URL and the API key of a   *)
(* cluster of a configuration that declares both, no load is at work on a  *)
(* cluster that lacks one, and when the initial load has returned the      *)
(* registry holds every cluster of the configuration that declares both.   *)
(***************************************************************************)
OnlyQualifyingClustersAdded ==
    /\ \A i \in 1..Len(clusterKubelogData) :
           \E c \in Configs : \E j \in 1..Len(AllClusters(c)) :
               Declares(AllClusters(c)[j], clusterKubelogData[i])
    /\ \A k \in 1..Len(loads) : HasKwirth(loads[k].clusters[loads[k].idx])
    /\ reloads = 0 /\ loads = <<>> => Keys(clusterKubelogData) = Keys(FullRegistry(config))

\* the initial load of the configuration whose first cluster has no API key
\* has returned: the cluster after it is registered
SkippedClusterThenNext ==
    /\ reloads = 0
    /\ loads = <<>>
    /\ config = DeprecatedConfig
    /\ ~HasKwirth(AllClusters(config)[1])
    /\ Keys(clusterKubelogData) = { "k2" }

\* some pattern of the list matches the name
PodsMatch(ppr, entityName) == \E i \in 1..Len(ppr.pods) : RegExpTest(ppr.pods[i], entityName)

\* some pattern of the list matches the lower-cased user ref or one of the groups
RefsMatch(ppr, userEntityRef, userGroups) ==
    \E j \in 1..Len(ppr.refs) :
        \/ RegExpTest(ppr.refs[j], toLowerCase(userEntityRef))
        \/ \E k \in 1..Len(userGroups) : RegExpTest(ppr.refs[j], userGroups[k])

(***************************************************************************)
(* C18: a rule that omits pods (or refs) is compiled to the single pattern *)
(* '.*' for it, which matches every name (every identity), so the rule     *)
(* then depends on its other part only; a rule that gives pods (or refs)   *)
(* as an empty list keeps the empty list and matches nothing.              *)
(***************************************************************************)
OmittedMatchesAllEmptyMatchesNone ==
    \A k \in 1..Len(evals) :
        evals[k].fn = "checkPodPermissionRule" =>
            LET e == evals[k]
            IN  /\ ~has(e.rule, "pods") =>
                       /\ e.ppr.pods = <<re_any>>
                       /\ PodsMatch(e.ppr, e.entityName)
                       /\ e.result = RefsMatch(e.ppr, e.userEntityRef, e.userGroups)
                /\ ~has(e.rule, "refs") =>
                       /\ e.ppr.refs = <<re_any>>
                       /\ RefsMatch(e.ppr, e.userEntityRef, e.userGroups)
                       /\ e.result = PodsMatch(e.ppr, e.entityName)
                /\ has(e.rule, "pods") /\ e.rule.pods = <<>> => e.ppr.pods = <<>> /\ ~e.result
                /\ has(e.rule, "refs") /\ e.rule.refs = <<>> => e.ppr.refs = <<>> /\ ~e.result

\* a rule with pods omitted and the empty list of refs was evaluated
EmptyRefsMatchNobody ==
    \E k \in 1..Len(evals) :
        /\ evals[k].fn = "checkPodPermissionRule"
        /\ ~has(evals[k].rule, "pods")
        /\ has(evals[k].rule, "refs")
        /\ evals[k].rule.refs = <<>>
        /\ evals[k].userGroups # <<>>
        /\ ~evals[k].result

\* the list in reverse order
Reverse(s) == [ i \in 1..Len(s) |-> s[Len(s) + 1 - i] ]

(***************************************************************************)
(* C19: checkPodPermissionRule is true exactly when some pods pattern      *)
(* matches the name and some refs pattern matches the lower-cased user ref *)
(* or one of the groups; the order of the patterns in the two lists does   *)
(* not change the result.                                                  *)
(***************************************************************************)
RuleIsPodsAndRefs ==
    \A k \in 1..Len(evals) :
        evals[k].fn = "checkPodPermissionRule" =>
            LET e == evals[k]
            IN  /\ e.result = (PodsMatch(e.ppr, e.entityName)
                                 /\ RefsMatch(e.ppr, e.userEntityRef, e.userGroups))
                /\ e.result = checkPodPermissionRule(
                                  [ pods |-> Reverse(e.ppr.pods), refs |-> Reverse(e.ppr.refs) ],
                                  e.entityName, e.userEntityRef, e.userGroups)

\* a rule matched by its second pods pattern and, through a group, by its
\* second refs pattern
RuleMatchedBySecondPatterns ==
    \E k \in 1..Len(evals) :
        /\ evals[k].fn = "checkPodPermissionRule"
        /\ Len(evals[k].ppr.pods) = 2
        /\ Len(evals[k].ppr.refs) = 2
        /\ ~RegExpTest(evals[k].ppr.pods[1], evals[k].entityName)
        /\ RegExpTest(evals[k].ppr.pods[2], evals[k].entityName)
        /\ ~RegExpTest(evals[k].ppr.refs[2], toLowerCase(evals[k].userEntityRef))
        /\ \A j \in 1..Len(evals[k].userGroups) : ~RegExpTest(evals[k].ppr.refs[1], evals[k].userGroups[j])
        /\ evals[k].result

\* the permission set of a call has, for the namespace of the pod, only
\* pod permissions that consist of an allow list
AllowOnly(e) ==
    \A i \in 1..Len(e.set) :
        e.set[i].namespace = e.pod.namespace => DOMAIN e.set[i] = { "namespace", "allow" }

SomeRuleMatches(rules, e) ==
    \E i \in 1..Len(rules) :
        checkPodPermissionRule(rules[i], e.entityName, e.userEntityRef, e.userGroups)

\* the allow list of the pod permission matches the call
AllowMatches(pp, e) ==
    /\ has(pp, "allow")
    /\ pp.allow # <<>>
    /\ checkPodPermissionRule(pp.allow[Len(pp.allow)], e.entityName, e.userEntityRef, e.userGroups)

\* the pod permission is of the namespace of the pod, its allow list matches
\* and one of its except rules matches
Excepted(pp, e) ==
    /\ pp.namespace = e.pod.namespace
    /\ AllowMatches(pp, e)
    /\ has(pp, "except")
    /\ SomeRuleMatches(pp.except, e)

\* the permission set of a call without the pod permissions that are excepted
WithoutExcepted(e) ==
    LET keep(pp) == ~Excepted(pp, e)
    IN  SelectSeq(e.set, keep)

AllowedNotExcepted(e) ==
    \A i \in 1..Len(e.set) :
        e.set[i].namespace = e.pod.namespace =>
            AllowMatches(e.set[i], e) /\ ~Excepted(e.set[i], e)

\* what deny and unless make of a pod permission
DenyLifted(pp, e) ==
    \/ ~has(pp, "deny")
    \/ ~SomeRuleMatches(pp.deny, e)
    \/ has(pp, "unless") /\ SomeRuleMatches(pp.unless, e)

(***************************************************************************)
(* C22: a pod permission whose allow matches and of whose except rules     *)
(* none matches grants exactly when it has no deny list, or no deny rule   *)
(* matches, or some unless rule matches: with such pod permissions only,   *)
(* checkPodAccess is true exactly when one of the namespace is so.         *)
(***************************************************************************)
DenyUnlessDecides ==
    \A k \in 1..Len(evals) :
        evals[k].fn = "checkPodAccess" /\ Registered(evals[k]) /\ AllowedNotExcepted(evals[k]) =>
            LET e == evals[k]
            IN  e.result <=>
                    \E i \in 1..Len(e.set) :
                        e.set[i].namespace = e.pod.namespace /\ DenyLifted(e.set[i], e)

\* a deny rule matched and no unless rule did: the pod permission did not grant
DeniedNotLifted ==
    \E k \in 1..Len(evals) :
        /\ evals[k].fn = "checkPodAccess"
        /\ Registered(evals[k])
        /\ evals[k].set = <<BlockDenyUnlessAdmins>>
        /\ AllowedNotExcepted(evals[k])
        /\ SomeRuleMatches(evals[k].set[1].deny, evals[k])
        /\ ~SomeRuleMatches(evals[k].set[1].unless, evals[k])
        /\ ~evals[k].result

\* the permission set of a call without the pod permissions of other namespaces
OfNamespace(e) ==
    LET keep(pp) == pp.namespace = e.pod.namespace
    IN  SelectSeq(e.set, keep)

(***************************************************************************)
(* C23: checkPodAccess looks at the pod permissions of the namespace of    *)
(* the pod, in the order of the configuration: it is true exactly when one *)
(* of them grants, false when there is none, and the pod permissions of    *)
(* other namespaces do not change the result.                              *)
(***************************************************************************)
OnlyBlocksOfNamespaceDecide ==
    \A k \in 1..Len(evals) :
        evals[k].fn = "checkPodAccess" /\ Registered(evals[k]) =>
            LET e == evals[k]
            IN  /\ e.result <=>
                       \E i \in 1..Len(e.set) :
                           /\ e.set[i].namespace = e.pod.namespace
                           /\ BlockGrants(e.set[i], e.entityName, e.userEntityRef, e.userGroups)
                /\ OfNamespace(e) = <<>> => ~e.result
                /\ e.result = checkPodAccess(clusterKubelogData, [name |-> e.cluster], e.pod,
                                             OfNamespace(e), e.entityName, e.userEntityRef,
                                             e.userGroups)

\* a pod permission of another namespace that grants everybody stands before
\* one of the pod's namespace that grants nobody
OtherNamespaceBlockIgnored ==
    \E k \in 1..Len(evals) :
        /\ evals[k].fn = "checkPodAccess"
        /\ Registered(evals[k])
        /\ evals[k].set = <<BlockProduction, BlockNobody>>
        /\ evals[k].pod.namespace = "stage"
        /\ BlockGrants(evals[k].set[1], evals[k].entityName, evals[k].userEntityRef, evals[k].userGroups)
        /\ ~evals[k].result

(***************************************************************************)
(* C24: no exception escapes from checkNamespaceAccess, getPodPermissionSet *)
(* and checkPodAccess as addAccessKeys calls them, whatever the loads and   *)
(* reloads have made of the registry, also when the cluster of the pod is   *)
(* no longer in it: no decision of addAccessKeys ends in an exception.      *)
(***************************************************************************)
NoEvaluationThrows ==
    \A k \in 1..Len(evals) : evals[k].decision.outcome # "throw"

\* the registry that a call of loadClusters that read these clusters produces
\* when no other call runs
LoadedAlone(clusters) ==
    [ i \in 1..Len(SelectSeq(clusters, HasKwirth)) |-> ClusterData(SelectSeq(clusters, HasKwirth)[i]) ]

\* the step is the return of the only call of loadClusters still running,
\* after a change notification, no call having failed
LastLoadReturns ==
    /\ reloads > 0
    /\ config # <<>>
    /\ Len(loads) = 1
    /\ loads' = <<>>

(***************************************************************************)
(* C25: when calls of loadClusters overlap, the registry after all of them *)
(* have returned is the registry that the call returning last produces     *)
(* alone from the configuration it read, with no entry written by another  *)
(* call.                                                                   *)
(***************************************************************************)
LastFinisherWins ==
    [][LastLoadReturns =>
          Entries(clusterKubelogData') = Entries(LoadedAlone(loads[1].clusters))]_vars

\* the two registries give the same decisions of the namespace gate and, for
\* the view and the restart permissions of each, the same pod access
SameDecisions(first, second) ==
    \A cluster \in GateClusters, pod \in EvalPods, u \in { ref_nicklaus, ref_ada },
       g \in { <<>>, <<ref_admin>> } :
        /\ checkNamespaceAccess(first, [name |-> cluster], pod, u, g)
             = checkNamespaceAccess(second, [name |-> cluster], pod, u, g)
        /\ MapHas(first, cluster) = MapHas(second, cluster)
        /\ MapHas(first, cluster) /\ MapHas(second, cluster) =>
             /\ checkPodAccess(first, [name |-> cluster], pod, MapGet(first, cluster).viewPermissions,
                               pod.name, u, g)
                  = checkPodAccess(second, [name |-> cluster], pod,
                                   MapGet(second, cluster).viewPermissions, pod.name, u, g)
             /\ checkPodAccess(first, [name |-> cluster], pod, MapGet(first, cluster).restartPermissions,
                               pod.name, u, g)
                  = checkPodAccess(second, [name |-> cluster], pod,
                                   MapGet(second, cluster).restartPermissions, pod.name, u, g)

RequestStep ==
    /\ req' # req
    /\ reloads' = reloads
    /\ loads' = loads

(***************************************************************************)
(* C27: the processing of a request never writes the registry: a step of   *)
(* processAccess, processStart, getValidClusters, addAccessKeys (with      *)
(* checkNamespaceAccess, getPodPermissionSet and checkPodAccess) or        *)
(* setAccessKey leaves the Map and every entry of it as they are.          *)
(***************************************************************************)
RequestsLeaveRegistry ==
    [][RequestStep => clusterKubelogData' = clusterKubelogData]_vars

\* a request was answered with an access key while the registry held clusters
AnsweredWithKey ==
    /\ req.pc = "sent"
    /\ req.status = 200
    /\ req.keys # {}
    /\ clusterKubelogData # <<>>

\* every pod permission of the list has an allow list
AllHaveAllow(podPermissions) ==
    \A i \in 1..Len(podPermissions) : has(podPermissions[i], "allow")

\* the pod permission grants every name, user and list of groups
GrantsEverybody(podPermission) ==
    \A entityName \in RuleNames, u \in RuleUserRefs, g \in RuleUserGroups :
        /\ BlockGrants(podPermission, entityName, u, g)
        /\ \A cluster \in Keys(clusterKubelogData) :
               checkPodAccess(clusterKubelogData, [name |-> cluster],
                              [namespace |-> podPermission.namespace, name |-> entityName],
                              <<podPermission>>, entityName, u, g)

OtherScopeReplaced(data, scopeStr, podPermissionSet) ==
    [ i \in 1..Len(data) |->
        IF scopeStr = "view"
        THEN [ data[i] EXCEPT !.restartPermissions = podPermissionSet ]
        ELSE [ data[i] EXCEPT !.viewPermissions = podPermissionSet ] ]

\* the decision of addAccessKeys for the pod of e on the registry data
DecisionOn(data, e) ==
    PodDecision(data, KWIRTH_SCOPE(e.scope), [name |-> e.cluster], e.pod,
                e.entityName, e.userEntityRef, e.userGroups)

(***************************************************************************)
(* C29: the scopes are isolated.  The decision of addAccessKeys for a      *)
(* view request is the same when the restartPermissions of every cluster   *)
(* are replaced by a pod permission that grants nobody, and the decision   *)
(* for a restart request is the same when the viewPermissions are          *)
(* replaced so.  While setAccessKey waits for the key, the key it will set *)
(* is named after the scope that the decision was made for, and every key  *)
(* of an /access request is named after one of its scopes view or restart  *)
(* that addAccessKeys has been called for.                                 *)
(***************************************************************************)
ScopesIsolated ==
    /\ \A k \in 1..Len(evals) :
           evals[k].scope \in { "view", "restart" } =>
               evals[k].decision
                 = DecisionOn(OtherScopeReplaced(clusterKubelogData, evals[k].scope,
                                  << [ namespace |-> evals[k].pod.namespace, allow |-> <<>> ] >>),
                              evals[k])
    /\ req.pc = "key" /\ evals # <<>> =>
           LET e == evals[Len(evals)]
           IN  /\ e.scope = req.scopes[req.sidx]
               /\ e.scope \in { "view", "restart" }
               /\ KeyRequested(e)
               /\ e.cluster = req.foundClusters[req.ci].name
               /\ e.pod = req.foundClusters[req.ci].data[req.pi]
               /\ req.endpoint = "access" => KeyName(req) = e.scope \o "AccessKey"
    /\ req.pc \in { "scope", "key", "loop" } /\ req.endpoint = "access" =>
           \A key \in req.keys :
               \E i \in 1..Len(req.scopes) :
                   /\ i <= req.sidx
                   /\ req.scopes[i] \in { "view", "restart" }
                   /\ key[3] = req.scopes[i] \o "AccessKey"

\* a request for view and restart holds a view key and waits for the restart
\* key of the same pod, in a cluster whose view and restart permissions differ
ViewKeyThenRestartKey ==
    /\ req.pc = "key"
    /\ req.scopes = << "view", "restart" >>
    /\ req.sidx = 2
    /\ << req.ci, req.pi, "viewAccessKey" >> \in req.keys
    /\ evals # <<>>
    /\ Registered(evals[Len(evals)])
    /\ MapGet(clusterKubelogData, evals[Len(evals)].cluster).viewPermissions
         # MapGet(clusterKubelogData, evals[Len(evals)].cluster).restartPermissions

(***************************************************************************)
(* C30: createRouter returns its router only after the initial             *)
(* loadClusters has completed, so a request to /access or /start is        *)
(* processed only then: as long as no change notification came, a request  *)
(* is in progress or answered only when no call of loadClusters is still   *)
(* running.                                                                *)
(***************************************************************************)
RequestsAfterInitialLoad ==
    reloads = 0 /\ req.pc # "idle" => loads = <<>>

=============================================================================
